---- MODULE Spec2Model ----
(***************************************************************************)
(* A model of the two build-time pipelines of aurora-dev:                  *)
(*   scripts/fetch-github.mts  (the Collector)                             *)
(*   scripts/summarize-ai.mts  (the Digest Builder)                        *)
(* Strings are sequences of one-character strings; JavaScript numbers that *)
(* may be NaN are records [nan, v]; optional timestamps are records [k, t].*)
(***************************************************************************)
EXTENDS Integers, Sequences, FiniteSets, TLC

VARIABLES
    \* ---- Digest Builder (summarize-ai.mts) ----
    pc,                 \* position of the script
    argvWeek,           \* the token that follows --week on the command line
    weekStr,            \* const weekStr (line 97)
    maxHighlights,      \* const maxHighlights (line 98)
    dryRun,             \* const dryRun (line 99)
    cache,              \* const cache (line 107)
    cacheRead,          \* whether the cache file was opened by this run
    recentRepos,        \* line 111
    mergedPRs,          \* line 116
    interestingEvents,  \* line 121
    baseHighlights,     \* main: baseHighlights (line 304)
    baseChangelog,      \* main: baseChangelog (line 305)
    aiReply,            \* what the generative endpoint answered in this run
    aiCalls,            \* number of requests sent to the generative endpoint
    result,             \* { source, highlights, changelog } (line 307)
    docs,               \* highlightsMD / changelogMD (lines 321-329)
    hiFile,             \* src/content/highlights/<week>.md, per week
    chFile,             \* src/content/changelog/<week>.md, per week
    exitCode,           \* process exit status (-1 while running)
    failure,            \* the error that ended the run, if any
    \* ---- Collector (fetch-github.mts) ----
    cpc,                \* position of the script
    cfg,                \* username / dryRun / useGraphQL read at start-up
    calls,              \* the outbound calls issued so far, in order
    reports,            \* the rate-limit counters the remote reported, per call
    fetched,            \* repos / events / prs / pinned held in memory
    cacheFile,          \* src/data/github.cache.json
    cexit,              \* process exit status (-1 while running)
    cfailure,           \* the error that ended the run, if any
    \* ---- projects module (unnamed/part_001) ----
    ppc,                \* position of the module's evaluation
    projectsRaw,        \* the imported projects.custom.json
    PROJECTS            \* export const PROJECTS (line 18)

dvars == <<pc, argvWeek, weekStr, maxHighlights, dryRun, cache, cacheRead,
           recentRepos, mergedPRs, interestingEvents, baseHighlights,
           baseChangelog, aiReply, aiCalls, result, docs, hiFile, chFile,
           exitCode, failure>>
cvars == <<cpc, cfg, calls, reports, fetched, cacheFile, cexit, cfailure>>
pvars == <<ppc, projectsRaw, PROJECTS>>
vars == <<dvars, cvars, pvars>>

----------------------------------------------------------------------------
(* Bounds of the model *)

MaxPRs == 2          \* pull requests drawn freely into a cache
MaxRepos == 2        \* repositories drawn freely into a cache
MaxEvents == 2       \* events drawn freely into a cache
MaxMH == 4           \* largest --max-highlights value tried
MaxWeekLen == 8      \* longest --week argument tried
MaxReplyLines == 4   \* longest generative reply tried, in lines
MaxRem == 1          \* largest x-ratelimit-remaining value tried
MaxPadExtra == 1     \* records drawn freely next to a list that fills a view's cap
MaxProjects == 3     \* projects in projects.custom.json

(* Program constants *)

WindowDays == 14     \* withinLastDays(..., 14)
RepoCap == 20        \* recentRepos .slice(0, 20)
PRCap == 50          \* mergedPRs .slice(0, 50)
EventCap == 80       \* interestingEvents .slice(0, 80)
MinCap == 3          \* Math.max(3, maxHighlights)
DefaultMH == 5       \* args.get('max-highlights') || 5

----------------------------------------------------------------------------
(* Generic helpers *)

Min(a, b) == IF a <= b THEN a ELSE b
Max(a, b) == IF a >= b THEN a ELSE b

RECURSIVE SeqsUpTo(_, _)
SeqsUpTo(S, n) ==
    IF n = 0 THEN {<< >>}
    ELSE LET shorter == SeqsUpTo(S, n - 1)
         IN  shorter \cup {Append(s, x) : s \in {t \in shorter : Len(t) = n - 1}, x \in S}

Range(s) == {s[i] : i \in 1..Len(s)}

RECURSIVE Concat(_)
Concat(ss) == IF ss = << >> THEN << >> ELSE Head(ss) \o Concat(Tail(ss))

(* JavaScript numbers that can be NaN *)
Num(n) == [nan |-> FALSE, v |-> n]
NaN == [nan |-> TRUE, v |-> 0]

\* a >= b on JavaScript numbers: false when either side is NaN
JsGE(a, b) == ~a.nan /\ ~b.nan /\ a.v >= b.v
\* a < b on JavaScript numbers: false when either side is NaN
JsLT(a, b) == ~a.nan /\ ~b.nan /\ a.v < b.v
\* Math.max(a, b): NaN when either side is NaN
JsMax(a, b) == IF a.nan \/ b.nan THEN NaN ELSE Num(Max(a.v, b.v))

\* Array.prototype.slice(0, end): NaN counts as 0, a negative end counts from the back
SliceTo(s, end) ==
    LET n == Len(s)
        e == IF end.nan THEN 0
             ELSE IF end.v < 0 THEN Max(n + end.v, 0)
             ELSE Min(end.v, n)
    IN  SubSeq(s, 1, e)

\* Array.prototype.slice(-k)
SliceLast(s, k) == SubSeq(s, Max(Len(s) - k, 0) + 1, Len(s))

(* Strings *)

\* the characters used, in UTF-16 code unit order
CharOrder == <<"-", "/", "0", "2", "3", "4", "5", "a", "b", "c", "d", "e",
               "h", "i", "n", "o", "p", "s", "t", "x", "z">>
Code(c) == CHOOSE i \in 1..Len(CharOrder) : CharOrder[i] = c

\* s < t in the order Array.prototype.sort() uses without a comparator
RECURSIVE StrLess(_, _)
StrLess(s, t) ==
    IF t = << >> THEN FALSE
    ELSE IF s = << >> THEN TRUE
    ELSE IF Head(s) = Head(t) THEN StrLess(Tail(s), Tail(t))
    ELSE Code(Head(s)) < Code(Head(t))

\* String.prototype.split(sep) for a one-character separator
RECURSIVE SplitAcc(_, _, _)
SplitAcc(s, sep, cur) ==
    IF s = << >> THEN <<cur>>
    ELSE IF Head(s) = sep THEN <<cur>> \o SplitAcc(Tail(s), sep, << >>)
    ELSE SplitAcc(Tail(s), sep, Append(cur, Head(s)))
Split(s, sep) == SplitAcc(s, sep, << >>)

\* Array.prototype.join(sep)
RECURSIVE Join(_, _)
Join(parts, sep) ==
    IF parts = << >> THEN << >>
    ELSE IF Len(parts) = 1 THEN parts[1]
    ELSE parts[1] \o <<sep>> \o Join(Tail(parts), sep)

\* an absent (undefined) string-valued field
Undefined == <<"<undefined>">>

----------------------------------------------------------------------------
(* Time and timestamps (summarize-ai.mts) *)

DayMs == 24 * 60 * 60 * 1000
\* Date.now() of the run
Now == 20 * DayMs

\* an ISO timestamp field: null, '', an unparseable string, or a time in ms
TsNull == [k |-> "null", t |-> 0]
TsEmpty == [k |-> "empty", t |-> 0]
TsBad == [k |-> "bad", t |-> 0]
Ts(t) == [k |-> "ts", t |-> t]

\* !iso
Falsy(iso) == iso.k \in {"null", "empty"}
\* new Date(iso).getTime()
GetTime(iso) == IF iso.k = "ts" THEN Num(iso.t) ELSE NaN

\* faulty variant of withinLastDays: the comparison is strict
withinLastDaysStrict(iso, days) ==
    IF Falsy(iso) THEN FALSE
    ELSE LET dt == GetTime(iso)
         IN  ~dt.nan /\ Now - dt.v < days * DayMs
withinLastDays(iso, days) ==
    IF Falsy(iso) THEN FALSE
    ELSE LET dt == GetTime(iso)
         IN  ~dt.nan /\ Now - dt.v <= days * DayMs

\* a || b on timestamp fields
OrElse(a, b) == IF Falsy(a) THEN b ELSE a

----------------------------------------------------------------------------
(* Stable sort, newest first: Array.prototype.sort((a, b) => key(b) - key(a)) *)

\* The comparator is consistent whenever no key is NaN, and the sort is stable:
\* j comes before i when its key is larger, or equal and it stood before i.
\* faulty variant of SortDesc: oldest first
SortAsc(pairs0) ==
    LET n == Len(pairs0)
        pairs == SubSeq(pairs0, 1, n)
        Before(j, i) == \/ JsLT(pairs[j].key, pairs[i].key)
                        \/ (~JsLT(pairs[i].key, pairs[j].key) /\ j < i)
        rank == SubSeq([i \in 1..n |-> Cardinality({j \in 1..n : j # i /\ Before(j, i)}) + 1],
                       1, n)
    IN  [r \in 1..n |-> pairs[CHOOSE i \in 1..n : rank[i] = r]]
\* pairs0: a sequence of [key, item]
SortDesc(pairs0) ==
    LET n == Len(pairs0)
        pairs == SubSeq(pairs0, 1, n)
        Before(j, i) == \/ JsLT(pairs[i].key, pairs[j].key)
                        \/ (~JsLT(pairs[j].key, pairs[i].key) /\ j < i)
        rank == SubSeq([i \in 1..n |-> Cardinality({j \in 1..n : j # i /\ Before(j, i)}) + 1],
                       1, n)
    IN  [r \in 1..n |-> pairs[CHOOSE i \in 1..n : rank[i] = r]]

Items(pairs) == [i \in 1..Len(pairs) |-> pairs[i].item]

\* every order of the sequence s
Orders(s) ==
    {[i \in 1..Len(s) |-> s[f[i]]] :
        f \in {g \in [1..Len(s) -> 1..Len(s)] : \A i, j \in 1..Len(s) : g[i] = g[j] => i = j}}

\* what the sort can return: with a NaN key, b - a is NaN for some pairs, the comparator
\* is not consistent and the order is left to the implementation
SortResults(pairs) ==
    IF \E i \in 1..Len(pairs) : pairs[i].key.nan
    THEN Orders(pairs)
    ELSE {SortDesc(pairs)}

----------------------------------------------------------------------------
(* The windowed views (summarize-ai.mts, lines 111-124) *)

InterestingTypes == {"PushEvent", "PullRequestEvent", "ReleaseEvent",
                     "IssuesEvent", "CreateEvent"}

RepoInWindow(r) == withinLastDays(r.pushed_at, WindowDays)
                   \/ withinLastDays(r.updated_at, WindowDays)
\* new Date(r.pushed_at || r.updated_at || 0).getTime()
RepoKey(r) ==
    LET f == OrElse(r.pushed_at, r.updated_at)
    IN  IF Falsy(f) THEN Num(0) ELSE GetTime(f)

RecentReposOf(c) ==
    LET kept == SelectSeq(c.repos, RepoInWindow)
        pairs == [i \in 1..Len(kept) |-> [key |-> RepoKey(kept[i]), item |-> kept[i]]]
    IN  SliceTo(Items(SortDesc(pairs)), Num(RepoCap))

\* recentRepos, for every order the sort can return
RecentReposResults(c) ==
    LET kept == SelectSeq(c.repos, RepoInWindow)
        pairs == [i \in 1..Len(kept) |-> [key |-> RepoKey(kept[i]), item |-> kept[i]]]
    IN  {SliceTo(Items(sorted), Num(RepoCap)) : sorted \in SortResults(pairs)}

PRInWindow(pr) == ~Falsy(pr.merged_at) /\ withinLastDays(pr.merged_at, WindowDays)

MergedPRsOf(c) ==
    LET kept == SelectSeq(c.prs, PRInWindow)
        pairs == [i \in 1..Len(kept) |-> [key |-> GetTime(kept[i].merged_at), item |-> kept[i]]]
    IN  SliceTo(Items(SortDesc(pairs)), Num(PRCap))

EventInWindow(e) == withinLastDays(e.created_at, WindowDays)
EventInteresting(e) == e.type \in InterestingTypes

InterestingEventsOf(c) ==
    SliceTo(SelectSeq(SelectSeq(c.events, EventInWindow), EventInteresting), Num(EventCap))

----------------------------------------------------------------------------
(* The heuristic draft (summarize-ai.mts, lines 126-190) *)

\* pr.repository_url?.split('/').slice(-2).join('/') || ''
repoOfPR(pr) ==
    IF pr.repository_url = Undefined THEN << >>
    ELSE Join(SliceLast(Split(pr.repository_url, "/"), 2), "/")

PRBullet(pr) == [kind |-> "pr", id |-> pr.number, repo |-> repoOfPR(pr)]
RepoBullet(r) == [kind |-> "repo", id |-> 0, repo |-> r.full_name]
ReleaseBullet(e) == [kind |-> "release", id |-> 0, repo |-> e.repo]

\* for (const r of recentRepos) { if (out.length >= maxHighlights) break; out.push(...) }
\* faulty variant of RepoLoop: the loop never breaks
RECURSIVE RepoLoopNoBreak(_, _, _)
RepoLoopNoBreak(out, rs, mh) ==
    IF rs = << >> THEN out
    ELSE RepoLoopNoBreak(Append(out, RepoBullet(Head(rs))), Tail(rs), mh)
RECURSIVE RepoLoop(_, _, _)
RepoLoop(out, rs, mh) ==
    IF rs = << >> THEN out
    ELSE IF JsGE(Num(Len(out)), mh) THEN out
    ELSE RepoLoop(Append(out, RepoBullet(Head(rs))), Tail(rs), mh)

\* interestingEvents.find(e => e.type === 'ReleaseEvent'), as a list of 0 or 1 event
FindRelease(evs) ==
    LET I == {i \in 1..Len(evs) : evs[i].type = "ReleaseEvent"}
    IN  IF I = {} THEN << >> ELSE <<evs[CHOOSE i \in I : \A j \in I : i <= j]>>

\* faulty variant of buildHeuristicHighlights: the repository loop is skipped
buildHeuristicHighlightsNoRepos(prs, repos, evs, mh) ==
    LET taken == SliceTo(prs, mh)
        out1 == [i \in 1..Len(taken) |-> PRBullet(taken[i])]
        rel == FindRelease(evs)
        out3 == IF JsLT(Num(Len(out1)), JsMax(Num(MinCap), mh)) /\ rel # << >>
                THEN Append(out1, ReleaseBullet(rel[1]))
                ELSE out1
    IN  SliceTo(out3, JsMax(Num(MinCap), mh))
buildHeuristicHighlights(prs, repos, evs, mh) ==
    LET taken == SliceTo(prs, mh)
        out1 == [i \in 1..Len(taken) |-> PRBullet(taken[i])]
        out2 == RepoLoop(out1, repos, mh)
        rel == FindRelease(evs)
        out3 == IF JsLT(Num(Len(out2)), JsMax(Num(MinCap), mh)) /\ rel # << >>
                THEN Append(out2, ReleaseBullet(rel[1]))
                ELSE out2
    IN  SliceTo(out3, JsMax(Num(MinCap), mh))

\* the lines of the changelog text
HeaderLine(k) == [kind |-> "header", id |-> 0, repo |-> k, etype |-> ""]
PRLine(pr) == [kind |-> "prline", id |-> pr.number, repo |-> << >>, etype |-> ""]
EventLine(e) == [kind |-> "evline", id |-> e.payload, repo |-> << >>, etype |-> e.type]
BlankLine == [kind |-> "blank", id |-> 0, repo |-> << >>, etype |-> ""]
Placeholder == [kind |-> "placeholder", id |-> 0, repo |-> << >>, etype |-> ""]

Desconhecido == <<"d", "e", "s", "c", "o", "n", "h", "e", "c", "i", "d", "o">>

\* e.repo?.name || 'desconhecido'
repoOfEvent(e) == IF e.repo = Undefined \/ e.repo = << >> THEN Desconhecido ELSE e.repo

\* the calls add(repo, line) of lines 165-177, in order
AddCalls(prs, evs) ==
    LET shown == SelectSeq(evs, EventInteresting)
        fromPRs == [i \in 1..Len(prs) |->
                       [key |-> repoOfPR(prs[i]), line |-> PRLine(prs[i])]]
        fromEvents == [i \in 1..Len(shown) |->
                       [key |-> repoOfEvent(shown[i]), line |-> EventLine(shown[i])]]
    IN  SubSeq(fromPRs, 1, Len(prs)) \o SubSeq(fromEvents, 1, Len(shown))

\* the Map buckets after those calls: keys in the order of their first add, each
\* with its lines in the order they were added
Buckets(adds) ==
    LET n == Len(adds)
        first == {i \in 1..n : \A j \in 1..(i - 1) : adds[j].key # adds[i].key}
        IsFirst(i) == i \in first
        order == SelectSeq([i \in 1..n |-> i], IsFirst)
        LinesOf(k) == LET Mine(a) == a.key = k
                          mine == SelectSeq(adds, Mine)
                      IN  [i \in 1..Len(mine) |-> mine[i].line]
    IN  [b \in 1..Len(order) |-> [key |-> adds[order[b]].key,
                                  lines |-> LinesOf(adds[order[b]].key)]]

\* Array.from(buckets.keys()).sort(), on the buckets themselves
InsertKey(acc, b) ==
    LET J == {j \in 1..Len(acc) : ~StrLess(b.key, acc[j].key)}
        pos == IF J = {} THEN 0 ELSE CHOOSE m \in J : \A k \in J : k <= m
    IN  SubSeq(acc, 1, pos) \o <<b>> \o SubSeq(acc, pos + 1, Len(acc))
RECURSIVE SortKeysAcc(_, _)
SortKeysAcc(acc, rest) ==
    IF rest = << >> THEN acc
    ELSE SortKeysAcc(InsertKey(acc, Head(rest)), Tail(rest))
\* faulty variant of SortBuckets: the keys stay in insertion order
SortBucketsUnsorted(buckets) == buckets
SortBuckets(buckets) == SortKeysAcc(<< >>, buckets)

buildHeuristicChangelog(prs, evs) ==
    LET buckets == Buckets(AddCalls(prs, evs))
        sorted == SortBuckets(buckets)
        lines == Concat([i \in 1..Len(sorted) |->
                     <<HeaderLine(sorted[i].key)>> \o sorted[i].lines \o <<BlankLine>>])
    IN  IF lines = << >> THEN <<Placeholder>> ELSE lines

----------------------------------------------------------------------------
(* Command line of the Digest Builder (summarize-ai.mts, lines 17-35, 86-99) *)

Digits == {"0", "1", "2", "3", "4", "5", "6", "7", "8", "9"}

\* the ISO week of the run's clock, as fmtWeek() prints it
CurrentWeek == <<"2", "0", "2", "5", "-", "3", "5">>
fmtWeek == CurrentWeek

\* the value args.get('week') holds: undefined, true, or the next token
ArgUndefined == [k |-> "undefined", s |-> << >>]
ArgTrue == [k |-> "true", s |-> << >>]
ArgStr(s) == [k |-> "str", s |-> s]

\* a: [flag |-> whether --week is given, nx |-> the token after it or Undefined]
\* if (nx && !nx.startsWith('--')) args.set(key, nx) else args.set(key, true)
CliArg(a) ==
    IF ~a.flag THEN ArgUndefined
    ELSE IF a.nx = Undefined \/ a.nx = << >> THEN ArgTrue
    ELSE IF Len(a.nx) >= 2 /\ a.nx[1] = "-" /\ a.nx[2] = "-" THEN ArgTrue
    ELSE ArgStr(a.nx)

\* /^\d{4}-\d{2}$/.test(s)
\* faulty variant of WeekRegex: the pattern without its anchors
WeekRegexUnanchored(s) ==
    \E o \in 0..Len(s) :
        /\ Len(s) >= o + 7
        /\ \A i \in 1..4 : s[o + i] \in Digits
        /\ s[o + 5] = "-"
        /\ \A i \in 6..7 : s[o + i] \in Digits
WeekRegex(s) ==
    /\ Len(s) = 7
    /\ \A i \in 1..4 : s[i] \in Digits
    /\ s[5] = "-"
    /\ \A i \in 6..7 : s[i] \in Digits

\* parseWeek: [ok |-> FALSE] stands for the thrown format error
parseWeek(arg) ==
    IF arg.k = "undefined" \/ (arg.k = "str" /\ arg.s = << >>)
    THEN [ok |-> TRUE, week |-> fmtWeek]
    ELSE IF arg.k = "str" /\ WeekRegex(arg.s) THEN [ok |-> TRUE, week |-> arg.s]
    ELSE [ok |-> FALSE, week |-> << >>]

----------------------------------------------------------------------------
(* The generative rewrite (summarize-ai.mts, lines 193-292) *)

\* a reply is a sequence of lines [kind, id]; kinds:
\*   "H" the line ===HIGHLIGHTS===      "C" the line ===CHANGELOG===
\*   "bullet" a line starting with '- ' "ibullet" the same, indented
\*   "text" any other text              "blank" a whitespace-only line
LineKinds == {"H", "C", "bullet", "ibullet", "text", "blank"}

\* openaiKey ? 'openai' : (openrouterKey ? 'openrouter' : 'none')
Provider(openaiKey, openrouterKey) ==
    IF openaiKey THEN "openai" ELSE IF openrouterKey THEN "openrouter" ELSE "none"

\* text.split(<delimiter line>) on a sequence of lines
RECURSIVE SplitAtAcc(_, _, _)
SplitAtAcc(ls, kind, cur) ==
    IF ls = << >> THEN <<cur>>
    ELSE IF Head(ls).kind = kind THEN <<cur>> \o SplitAtAcc(Tail(ls), kind, << >>)
    ELSE SplitAtAcc(Tail(ls), kind, Append(cur, Head(ls)))
SplitAt(ls, kind) == SplitAtAcc(ls, kind, << >>)

\* l.trim().startsWith('- ')
IsBulletLine(l) == l.kind \in {"bullet", "ibullet"}

AiBullet(l) == [kind |-> "ai", id |-> l.id, repo |-> << >>]
AiLine(l) == [kind |-> "ai", id |-> l.id, repo |-> << >>, etype |-> l.kind]

\* String.prototype.trim() on a sequence of lines: whitespace-only lines at both
\* ends go, and so does the indentation of the first line
RECURSIVE DropBlanks(_)
DropBlanks(ls) ==
    IF ls = << >> THEN << >>
    ELSE IF Head(ls).kind = "blank" THEN DropBlanks(Tail(ls))
    ELSE ls
Reverse(s) == [i \in 1..Len(s) |-> s[Len(s) + 1 - i]]
TrimLines(ls) ==
    LET t == Reverse(DropBlanks(Reverse(DropBlanks(ls))))
    IN  IF t # << >> /\ t[1].kind = "ibullet"
        THEN <<[t[1] EXCEPT !.kind = "bullet"]>> \o Tail(t)
        ELSE t

Heuristic(highlightsDraft, changelogDraft) ==
    [source |-> "heuristic", highlights |-> highlightsDraft, changelog |-> changelogDraft]

\* lines 277-287, for a non-empty reply text
\* faulty variant of ParseReply: the bullet lines are not cut
ParseReplyUntruncated(text, highlightsDraft, changelogDraft, mh) ==
    LET parts == SplitAt(text, "C")
        hparts == SplitAt(parts[1], "H")
        highRaw == hparts[Len(hparts)]
        chgRaw == IF Len(parts) >= 2 THEN parts[2] ELSE << >>
        kept == SelectSeq(highRaw, IsBulletLine)
        highs == [i \in 1..Len(kept) |-> AiBullet(kept[i])]
        trimmed == TrimLines(chgRaw)
        chg == IF trimmed # << >>
               THEN [i \in 1..Len(trimmed) |-> AiLine(trimmed[i])]
               ELSE changelogDraft
    IN  IF highs = << >>
        THEN [source |-> "ai", highlights |-> highlightsDraft, changelog |-> chg]
        ELSE [source |-> "ai", highlights |-> highs, changelog |-> chg]
ParseReply(text, highlightsDraft, changelogDraft, mh) ==
    LET parts == SplitAt(text, "C")
        hparts == SplitAt(parts[1], "H")
        highRaw == hparts[Len(hparts)]
        chgRaw == IF Len(parts) >= 2 THEN parts[2] ELSE << >>
        kept == SelectSeq(highRaw, IsBulletLine)
        highs == [i \in 1..Len(kept) |-> AiBullet(kept[i])]
        trimmed == TrimLines(chgRaw)
        chg == IF trimmed # << >>
               THEN [i \in 1..Len(trimmed) |-> AiLine(trimmed[i])]
               ELSE changelogDraft
    IN  IF highs = << >>
        THEN [source |-> "ai", highlights |-> highlightsDraft, changelog |-> chg]
        ELSE [source |-> "ai",
              highlights |-> SliceTo(highs, JsMax(Num(MinCap), mh)),
              changelog |-> chg]

\* reply: [provider, outcome, text]; outcome is
\*   "none"    no request was made
\*   "network" fetch rejected             "http"  res.ok is false
\*   "badjson" res.json() threw, or the content is not a string
\*   "ok"      a reply text was extracted (possibly '')
\* faulty variant of aiSummarize: an empty text is parsed like any other
aiSummarizeAlwaysParse(highlightsDraft, changelogDraft, mh, reply) ==
    IF reply.provider = "none" THEN Heuristic(highlightsDraft, changelogDraft)
    ELSE IF reply.outcome \in {"network", "http", "badjson"}
    THEN Heuristic(highlightsDraft, changelogDraft)
    ELSE ParseReply(reply.text, highlightsDraft, changelogDraft, mh)
aiSummarize(highlightsDraft, changelogDraft, mh, reply) ==
    IF reply.provider = "none" THEN Heuristic(highlightsDraft, changelogDraft)
    ELSE IF reply.outcome \in {"network", "http", "badjson"}
    THEN Heuristic(highlightsDraft, changelogDraft)
    ELSE IF reply.text = << >> THEN Heuristic(highlightsDraft, changelogDraft)
    ELSE ParseReply(reply.text, highlightsDraft, changelogDraft, mh)

----------------------------------------------------------------------------
(* Documents and files (summarize-ai.mts, lines 294-348) *)

NoDoc == [title |-> "", week |-> << >>, source |-> "", body |-> << >>]

\* front(title) followed by the body
\* faulty variant of front: the changelog header gets another source tag
frontOtherSource(title, week, source, body) ==
    [title |-> title, week |-> week,
     source |-> IF title = "Changelog" THEN "heuristic" ELSE source, body |-> body]
front(title, week, source, body) ==
    [title |-> title, week |-> week, source |-> source, body |-> body]

\* a file as this run found it ("prev") or as this run wrote it ("written")
PrevFile == [state |-> "prev", doc |-> NoDoc]
Written(doc) == [state |-> "written", doc |-> doc]

----------------------------------------------------------------------------
(* Inputs the model draws from *)

\* Number(args.get('max-highlights') || 5)
\* a: [k |-> "undefined" | "true" | "num" | "text", v |-> the number written]
maxHighlightsOf(a) ==
    IF a.k = "undefined" THEN Num(DefaultMH)
    ELSE IF a.k = "true" THEN Num(1)
    ELSE IF a.k = "num" THEN Num(a.v)
    ELSE NaN

MHArgs == {[k |-> "undefined", v |-> 0], [k |-> "true", v |-> 0], [k |-> "text", v |-> 0]}
          \cup {[k |-> "num", v |-> n] : n \in (-1)..MaxMH}

\* "https://api.github.com/repos/<owner>/<name>", shortened to "h//a/x/<owner>/<name>"
ApiUrl(owner, name) == <<"h", "/", "/", "a", "/", "x", "/">> \o owner \o <<"/">> \o name

NameAB == <<"a", "/", "b">>
NameZA == <<"z", "/", "a">>
NameE == <<"e">>
UrlAB == ApiUrl(<<"a">>, <<"b">>)
UrlZA == ApiUrl(<<"z">>, <<"a">>)

TOld == Ts(Now - WindowDays * DayMs - 1)
TEdge == Ts(Now - WindowDays * DayMs)
T2 == Ts(Now - 2 * DayMs)
T1 == Ts(Now - DayMs)

MkPRs(ts) ==
    [i \in 1..Len(ts) |-> [number |-> i, repository_url |-> ts[i].url, merged_at |-> ts[i].m]]
MkRepos(ts) ==
    [i \in 1..Len(ts) |-> [full_name |-> ts[i].name, pushed_at |-> ts[i].p, updated_at |-> ts[i].u]]
MkEvents(ts) ==
    [i \in 1..Len(ts) |-> [type |-> ts[i].type, created_at |-> ts[i].c, repo |-> ts[i].repo,
                           payload |-> i]]

\* more records than the views keep
PadPRs == [i \in 1..PRCap |-> [number |-> 100 + i, repository_url |-> UrlAB, merged_at |-> T2]]
PadEvents == [i \in 1..EventCap |->
                 [type |-> "PushEvent", created_at |-> T1, repo |-> NameAB, payload |-> 100 + i]]

NoCache == [repos |-> << >>, events |-> << >>, prs |-> << >>]

HLPRTemplates == {[url |-> UrlAB, m |-> T1], [url |-> UrlAB, m |-> TsNull]}
HLRepoTemplates == {[name |-> NameAB, p |-> T1, u |-> TsNull],
                    [name |-> NameZA, p |-> TOld, u |-> TsNull]}
HLEventTemplates == {[type |-> "ReleaseEvent", c |-> T1, repo |-> NameAB],
                     [type |-> "PushEvent", c |-> T1, repo |-> NameAB]}

HLCaches(pad, nr, ne, np) ==
    {[repos |-> MkRepos(r), events |-> pad \o MkEvents(e), prs |-> MkPRs(p)] :
        r \in SeqsUpTo(HLRepoTemplates, nr),
        e \in SeqsUpTo(HLEventTemplates, ne),
        p \in SeqsUpTo(HLPRTemplates, np)}

CLPRTemplates == {[url |-> UrlAB, m |-> T1], [url |-> UrlZA, m |-> TEdge],
                  [url |-> Undefined, m |-> T1], [url |-> UrlAB, m |-> TOld]}
CLEventTemplates == {[type |-> "PushEvent", c |-> T1, repo |-> NameAB],
                     [type |-> "ReleaseEvent", c |-> T1, repo |-> Undefined],
                     [type |-> "WatchEvent", c |-> T1, repo |-> NameAB],
                     [type |-> "IssuesEvent", c |-> TEdge, repo |-> NameE]}

CLCaches(ppad, epad, np, ne) ==
    {[repos |-> << >>, events |-> epad \o MkEvents(e), prs |-> ppad \o MkPRs(p)] :
        e \in SeqsUpTo(CLEventTemplates, ne),
        p \in SeqsUpTo(CLPRTemplates, np)}

\* the caches the whole pipeline is run on
CacheOnePR == [repos |-> << >>, events |-> << >>,
               prs |-> MkPRs(<<[url |-> UrlAB, m |-> T2]>>)]
CacheMixed == [repos |-> MkRepos(<<[name |-> NameZA, p |-> T1, u |-> T1]>>),
               events |-> MkEvents(<<[type |-> "ReleaseEvent", c |-> T1, repo |-> NameZA],
                                     [type |-> "PushEvent", c |-> T2, repo |-> NameAB]>>),
               prs |-> MkPRs(<<[url |-> UrlAB, m |-> T2], [url |-> UrlZA, m |-> T1]>>)]
DigestCaches == {NoCache, CacheOnePR, CacheMixed}

\* the cache file as the run finds it
CacheFiles == {[k |-> "absent", c |-> NoCache], [k |-> "corrupt", c |-> NoCache]}
              \cup {[k |-> "ok", c |-> c] : c \in DigestCaches}

WeekChars == {"2", "-", "a"}
Week2025_34 == <<"2", "0", "2", "5", "-", "3", "4">>
WeekArgStrings == SeqsUpTo(WeekChars, MaxWeekLen)
                  \cup {Week2025_34, <<"2", "0", "2", "5", "-", "5">>, <<"2", "5", "-", "3", "4">>}
WeekArgvs == {[flag |-> FALSE, nx |-> Undefined], [flag |-> TRUE, nx |-> Undefined]}
             \cup {[flag |-> TRUE, nx |-> s] : s \in WeekArgStrings}

\* every week tag a run of the model can target
Weeks == {CurrentWeek} \cup {s \in WeekArgStrings : WeekRegex(s)}

MkReply(kinds) == [i \in 1..Len(kinds) |-> [kind |-> kinds[i], id |-> i]]
ReplyTexts == {MkReply(ks) : ks \in SeqsUpTo(LineKinds, MaxReplyLines)}

\* the replies the whole pipeline is run on
DigestReplies == {MkReply(ks) : ks \in {<< >>, <<"text">>, <<"H", "bullet", "C", "text">>,
                                         <<"H", "text", "C", "text">>, <<"bullet", "bullet">>}}

----------------------------------------------------------------------------
(* The Digest Builder as a state machine *)

NoConfig == [username |-> FALSE, dryRun |-> FALSE, token |-> FALSE, useGraphQL |-> FALSE]
NothingFetched == [repos |-> "", events |-> "", prs |-> "", pinned |-> ""]
PrevCacheFile == [state |-> "prev", content |-> NothingFetched]
NoFailure == [kind |-> "none", reset |-> Num(0)]

\* the projects module is not being evaluated
ProjectsIdle ==
    /\ ppc = "idle"
    /\ projectsRaw = << >>
    /\ PROJECTS = << >>

\* the Collector is not running
CollectorIdle ==
    /\ cpc = "idle"
    /\ cfg = NoConfig
    /\ calls = << >>
    /\ reports = << >>
    /\ fetched = NothingFetched
    /\ cacheFile = PrevCacheFile
    /\ cexit = -1
    /\ cfailure = NoFailure

NoResult == [source |-> "", highlights |-> << >>, changelog |-> << >>]
NoReply == [provider |-> "none", outcome |-> "none", text |-> << >>]

DigestNoViews ==
    /\ recentRepos = << >>
    /\ mergedPRs = << >>
    /\ interestingEvents = << >>
    /\ baseHighlights = << >>
    /\ baseChangelog = << >>

DigestNoOutput ==
    /\ aiReply = NoReply
    /\ aiCalls = 0
    /\ result = NoResult
    /\ docs = [hi |-> NoDoc, ch |-> NoDoc]
    /\ hiFile = [w \in Weeks |-> PrevFile]
    /\ chFile = [w \in Weeks |-> PrevFile]
    /\ exitCode = -1
    /\ failure = "none"

\* the process as it starts
InitDigest ==
    /\ pc = "args"
    /\ argvWeek \in WeekArgvs
    /\ weekStr = << >>
    /\ maxHighlights = Num(DefaultMH)
    /\ dryRun = FALSE
    /\ cache = NoCache
    /\ cacheRead = FALSE
    /\ DigestNoViews
    /\ DigestNoOutput
    /\ CollectorIdle
    /\ ProjectsIdle

\* the process once it has read cache c, run with --max-highlights a and no --week
AfterRead(c, a) ==
    /\ pc = "prep"
    /\ argvWeek = [flag |-> FALSE, nx |-> Undefined]
    /\ weekStr = fmtWeek
    /\ maxHighlights = maxHighlightsOf(a)
    /\ dryRun = FALSE
    /\ cache = c
    /\ cacheRead = TRUE
    /\ DigestNoViews
    /\ DigestNoOutput
    /\ CollectorIdle
    /\ ProjectsIdle

InitHighlights ==
    \/ \E c \in HLCaches(<< >>, MaxRepos, MaxEvents, MaxPRs),
             a \in {m \in MHArgs : m.k = "num" /\ m.v >= 1} : AfterRead(c, a)
    \/ \E c \in HLCaches(<< >>, MaxRepos, MaxEvents, MaxPRs), a \in MHArgs :
          AfterRead(c, a)
    \/ \E c \in HLCaches(PadEvents, MaxPadExtra, MaxPadExtra, MaxPadExtra), a \in MHArgs :
          AfterRead(c, a)
InitChangelog ==
    \/ \E c \in CLCaches(<< >>, << >>, MaxPRs, MaxEvents) :
          AfterRead(c, [k |-> "undefined", v |-> 0])
    \/ \E c \in CLCaches(PadPRs, << >>, MaxPadExtra, MaxPadExtra) :
          AfterRead(c, [k |-> "undefined", v |-> 0])
    \/ \E c \in CLCaches(<< >>, PadEvents, MaxPadExtra, MaxPadExtra) :
          AfterRead(c, [k |-> "undefined", v |-> 0])

\* the process as it enters aiSummarize on cache CacheMixed
InitAi ==
    /\ pc = "ai"
    /\ argvWeek = [flag |-> FALSE, nx |-> Undefined]
    /\ weekStr = fmtWeek
    /\ \E a \in MHArgs : maxHighlights = maxHighlightsOf(a)
    /\ dryRun = FALSE
    /\ cache = CacheMixed
    /\ cacheRead = TRUE
    /\ recentRepos = RecentReposOf(cache)
    /\ mergedPRs = MergedPRsOf(cache)
    /\ interestingEvents = InterestingEventsOf(cache)
    /\ baseHighlights = buildHeuristicHighlights(mergedPRs, recentRepos,
                                                 interestingEvents, maxHighlights)
    /\ baseChangelog = buildHeuristicChangelog(mergedPRs, interestingEvents)
    /\ DigestNoOutput
    /\ CollectorIdle
    /\ ProjectsIdle

\* the process ends with status 1 and message m
Die(m) ==
    /\ pc' = "exit"
    /\ exitCode' = 1
    /\ failure' = m

\* lines 97-99: the three constants read from the command line
ParseArgs ==
    /\ pc = "args"
    /\ LET r == parseWeek(CliArg(argvWeek))
       IN  IF ~r.ok
           THEN /\ Die("format")
                /\ UNCHANGED <<weekStr, maxHighlights, dryRun>>
           ELSE /\ \E a \in MHArgs : maxHighlights' = maxHighlightsOf(a)
                /\ dryRun' \in BOOLEAN
                /\ weekStr' = r.week
                /\ pc' = "cache"
                /\ UNCHANGED <<exitCode, failure>>
    /\ UNCHANGED <<argvWeek, cache, cacheRead, recentRepos, mergedPRs, interestingEvents,
                   baseHighlights, baseChangelog, aiReply, aiCalls, result, docs,
                   hiFile, chFile>>
    /\ UNCHANGED <<cvars, pvars>>

\* lines 102-107: the cache file is looked up, read and parsed
ReadCache ==
    /\ pc = "cache"
    /\ \E f \in CacheFiles :
         \/ /\ f.k = "absent"
            /\ Die("nocache")
            /\ UNCHANGED <<cache, cacheRead>>
         \/ /\ f.k = "corrupt"
            /\ Die("parse")
            /\ cacheRead' = TRUE
            /\ UNCHANGED cache
         \/ /\ f.k = "ok"
            /\ cache' = f.c
            /\ cacheRead' = TRUE
            /\ pc' = "prep"
            /\ UNCHANGED <<exitCode, failure>>
    /\ UNCHANGED <<argvWeek, weekStr, maxHighlights, dryRun, recentRepos, mergedPRs,
                   interestingEvents, baseHighlights, baseChangelog, aiReply, aiCalls,
                   result, docs, hiFile, chFile>>
    /\ UNCHANGED <<cvars, pvars>>

\* lines 111-124
Prepare ==
    /\ pc = "prep"
    /\ recentRepos' \in RecentReposResults(cache)
    /\ mergedPRs' = MergedPRsOf(cache)
    /\ interestingEvents' = InterestingEventsOf(cache)
    /\ pc' = "main"
    /\ UNCHANGED <<argvWeek, weekStr, maxHighlights, dryRun, cache, cacheRead,
                   baseHighlights, baseChangelog, aiReply, aiCalls, result, docs,
                   hiFile, chFile, exitCode, failure>>
    /\ UNCHANGED <<cvars, pvars>>

\* main, lines 304-305
Draft ==
    /\ pc = "main"
    /\ baseHighlights' = buildHeuristicHighlights(mergedPRs, recentRepos,
                                                  interestingEvents, maxHighlights)
    /\ baseChangelog' = buildHeuristicChangelog(mergedPRs, interestingEvents)
    /\ pc' = "ai"
    /\ UNCHANGED <<argvWeek, weekStr, maxHighlights, dryRun, cache, cacheRead, recentRepos,
                   mergedPRs, interestingEvents, aiReply, aiCalls, result, docs,
                   hiFile, chFile, exitCode, failure>>
    /\ UNCHANGED <<cvars, pvars>>

\* aiSummarize, lines 195-204: no credential in the environment
AiNoProvider ==
    /\ pc = "ai"
    /\ Provider(FALSE, FALSE) = "none"
    /\ aiReply' = NoReply
    /\ result' = aiSummarize(baseHighlights, baseChangelog, maxHighlights, aiReply')
    /\ pc' = "assemble"
    /\ UNCHANGED <<argvWeek, weekStr, maxHighlights, dryRun, cache, cacheRead, recentRepos,
                   mergedPRs, interestingEvents, baseHighlights, baseChangelog, aiCalls,
                   docs, hiFile, chFile, exitCode, failure>>
    /\ UNCHANGED <<cvars, pvars>>

\* aiSummarize, lines 206-292: one request, and whatever comes back
AiRequestOn(texts) ==
    /\ pc = "ai"
    /\ \E openaiKey \in BOOLEAN, openrouterKey \in BOOLEAN :
         /\ Provider(openaiKey, openrouterKey) # "none"
         /\ \E o \in {"network", "http", "badjson", "ok"} :
            \E t \in (IF o = "ok" THEN texts ELSE {<< >>}) :
               aiReply' = [provider |-> Provider(openaiKey, openrouterKey),
                           outcome |-> o, text |-> t]
    /\ aiCalls' = aiCalls + 1
    /\ result' = aiSummarize(baseHighlights, baseChangelog, maxHighlights, aiReply')
    /\ pc' = "assemble"
    /\ UNCHANGED <<argvWeek, weekStr, maxHighlights, dryRun, cache, cacheRead, recentRepos,
                   mergedPRs, interestingEvents, baseHighlights, baseChangelog,
                   docs, hiFile, chFile, exitCode, failure>>
    /\ UNCHANGED <<cvars, pvars>>

AiRequest == AiRequestOn(DigestReplies)
AiRequestAny == AiRequestOn(ReplyTexts)

\* main, lines 309-333: the two documents are put together in memory
Assemble ==
    /\ pc = "assemble"
    /\ docs' = [hi |-> front("Destaques", weekStr, result.source, result.highlights),
                ch |-> front("Changelog", weekStr, result.source, result.changelog)]
    /\ pc' = IF dryRun THEN "preview" ELSE "write_hi"
    /\ UNCHANGED <<argvWeek, weekStr, maxHighlights, dryRun, cache, cacheRead, recentRepos,
                   mergedPRs, interestingEvents, baseHighlights, baseChangelog, aiReply,
                   aiCalls, result, hiFile, chFile, exitCode, failure>>
    /\ UNCHANGED <<cvars, pvars>>

\* main, lines 335-340
Preview ==
    /\ pc = "preview"
    /\ pc' = "exit"
    /\ exitCode' = 0
    /\ UNCHANGED <<argvWeek, weekStr, maxHighlights, dryRun, cache, cacheRead, recentRepos,
                   mergedPRs, interestingEvents, baseHighlights, baseChangelog, aiReply,
                   aiCalls, result, docs, hiFile, chFile, failure>>
    /\ UNCHANGED <<cvars, pvars>>

\* writeFileSafe(p, content): mkdirSync and writeFileSync can both throw.
\*   "ok"       the file holds the content
\*   "refused"  the directory or the file could not be created: the call throws
\*              and the file is as it was
WriteOutcomes == {"ok", "refused"}

FileAfter(old, doc, o) == IF o = "ok" THEN Written(doc) ELSE old

\* main, line 342
WriteHighlights ==
    /\ pc = "write_hi"
    /\ \E o \in WriteOutcomes :
         /\ hiFile' = [hiFile EXCEPT ![weekStr] = FileAfter(@, docs.hi, o)]
         /\ IF o = "ok"
            THEN pc' = "write_ch" /\ UNCHANGED <<exitCode, failure>>
            ELSE Die("io")
    /\ UNCHANGED <<argvWeek, weekStr, maxHighlights, dryRun, cache, cacheRead, recentRepos,
                   mergedPRs, interestingEvents, baseHighlights, baseChangelog, aiReply,
                   aiCalls, result, docs, chFile>>
    /\ UNCHANGED <<cvars, pvars>>

\* main, lines 343-348
WriteChangelog ==
    /\ pc = "write_ch"
    /\ \E o \in WriteOutcomes :
         /\ chFile' = [chFile EXCEPT ![weekStr] = FileAfter(@, docs.ch, o)]
         /\ IF o = "ok"
            THEN pc' = "exit" /\ exitCode' = 0 /\ UNCHANGED failure
            ELSE Die("io")
    /\ UNCHANGED <<argvWeek, weekStr, maxHighlights, dryRun, cache, cacheRead, recentRepos,
                   mergedPRs, interestingEvents, baseHighlights, baseChangelog, aiReply,
                   aiCalls, result, docs, hiFile>>
    /\ UNCHANGED <<cvars, pvars>>

NextDraft == Prepare \/ Draft
NextAi == AiNoProvider \/ AiRequestAny
NextDigest ==
    \/ ParseArgs
    \/ ReadCache
    \/ Prepare
    \/ Draft
    \/ AiNoProvider
    \/ AiRequest
    \/ Assemble
    \/ Preview
    \/ WriteHighlights
    \/ WriteChangelog

\* the heuristic highlights, over many caches and --max-highlights values
SpecHighlights == InitHighlights /\ [][NextDraft]_vars
\* the heuristic changelog, over many caches
SpecChangelog == InitChangelog /\ [][NextDraft]_vars
\* aiSummarize, over many replies
SpecAi == InitAi /\ [][NextAi]_vars
\* a whole run of the Digest Builder
SpecDigest == InitDigest /\ [][NextDigest]_vars

----------------------------------------------------------------------------
(* The Collector as a state machine (fetch-github.mts) *)

\* a <= b on JavaScript numbers: false when either side is NaN
JsLE(a, b) == ~a.nan /\ ~b.nan /\ a.v <= b.v

\* a response header: absent, a number in decimal, or some other text
HeaderAbsent == [k |-> "absent", v |-> 0]
HeaderNum(n) == [k |-> "num", v |-> n]
HeaderText == [k |-> "text", v |-> 0]
\* Number(res.headers.get(name) || '0')
HeaderNumber(h) ==
    IF h.k = "absent" THEN Num(0) ELSE IF h.k = "num" THEN Num(h.v) ELSE NaN

RemHeaders == {HeaderAbsent, HeaderText} \cup {HeaderNum(n) : n \in -1..MaxRem}
ResetHeaders == {HeaderAbsent, HeaderText, HeaderNum(1)}

\* what fetch() comes back with: a rejection, or a response with its rate-limit
\* headers, its status (res.ok) and a body that parses as JSON or does not
NetworkError == [net |-> "error", rem |-> HeaderAbsent, reset |-> HeaderAbsent,
                 ok |-> FALSE, body |-> "none"]
Responses ==
    {NetworkError} \cup
    [net : {"ok"}, rem : RemHeaders, reset : ResetHeaders, ok : BOOLEAN,
     body : {"json", "garbage"}]
PinnedResponses ==
    {NetworkError} \cup
    [net : {"ok"}, rem : RemHeaders, reset : {HeaderAbsent}, ok : BOOLEAN,
     body : {"json", "nonodes", "garbage"}]

Thrown(kind) == [kind |-> kind, reset |-> Num(0)]

\* ghGet(url): the error it throws on response res, NoFailure when it returns
\* faulty variant of ghGet: the guard is rem < 0
ghGetOffByOne(res) ==
    IF res.net = "error" THEN Thrown("network")
    ELSE LET rem == HeaderNumber(res.rem)
             reset == HeaderNumber(res.reset)
         IN  IF JsLT(rem, Num(0))
             THEN IF reset.nan THEN Thrown("range")
                  ELSE [kind |-> "ratelimit", reset |-> reset]
             ELSE IF ~res.ok THEN Thrown("http")
             ELSE IF res.body # "json" THEN Thrown("parse")
             ELSE NoFailure
ghGet(res) ==
    IF res.net = "error" THEN Thrown("network")
    ELSE LET rem == HeaderNumber(res.rem)
             reset == HeaderNumber(res.reset)
         IN  IF JsLE(rem, Num(0))
             \* new Date(NaN).toISOString() throws a RangeError
             THEN IF reset.nan THEN Thrown("range")
                  ELSE [kind |-> "ratelimit", reset |-> reset]
             ELSE IF ~res.ok THEN Thrown("http")
             ELSE IF res.body # "json" THEN Thrown("parse")
             ELSE NoFailure

\* fetchPinnedGraphQL(author) once the request is sent: the error it throws and the
\* pinned list it returns
fetchPinnedGraphQL(res) ==
    IF res.net = "error" THEN [thrown |-> Thrown("network"), pinned |-> ""]
    ELSE IF ~res.ok THEN [thrown |-> NoFailure, pinned |-> "empty"]
    ELSE IF res.body = "garbage" THEN [thrown |-> Thrown("parse"), pinned |-> ""]
    ELSE IF res.body = "nonodes" THEN [thrown |-> NoFailure, pinned |-> "empty"]
    ELSE [thrown |-> NoFailure, pinned |-> "items"]

\* what one call leaves in `reports`
Report(call, res) ==
    [call |-> call,
     outcome |-> IF res.net = "error" THEN "network"
                 ELSE IF ~res.ok THEN "http"
                 ELSE IF res.body = "garbage" THEN "badjson" ELSE "ok",
     answered |-> res.net = "ok",
     rem |-> HeaderNumber(res.rem),
     reset |-> HeaderNumber(res.reset)]

DigestIdle ==
    /\ pc = "idle"
    /\ argvWeek = [flag |-> FALSE, nx |-> Undefined]
    /\ weekStr = << >>
    /\ maxHighlights = Num(DefaultMH)
    /\ dryRun = FALSE
    /\ cache = NoCache
    /\ cacheRead = FALSE
    /\ DigestNoViews
    /\ DigestNoOutput

\* the process as it starts
InitCollector ==
    /\ cpc = "start"
    /\ cfg = NoConfig
    /\ calls = << >>
    /\ reports = << >>
    /\ fetched = NothingFetched
    /\ cacheFile = PrevCacheFile
    /\ cexit = -1
    /\ cfailure = NoFailure
    /\ DigestIdle
    /\ ProjectsIdle

\* main().catch: the error is printed and the process exits with status 1
CDie(f) ==
    /\ cpc' = "exit"
    /\ cexit' = 1
    /\ cfailure' = f

\* lines 97-107: the username, the flags and the environment
ReadConfig ==
    /\ cpc = "start"
    /\ \E username \in BOOLEAN, dry \in BOOLEAN, token \in BOOLEAN, flag \in BOOLEAN :
         /\ cfg' = [username |-> username, dryRun |-> dry, token |-> token,
                    useGraphQL |-> token /\ flag]
         /\ IF ~username
            THEN CDie(Thrown("nouser"))
            ELSE /\ cpc' = "user"
                 /\ UNCHANGED <<cexit, cfailure>>
    /\ UNCHANGED <<calls, reports, fetched, cacheFile>>
    /\ UNCHANGED <<dvars, pvars>>

\* faulty variant of RestCall: a failed call is noted and main goes on
RestCallGoesOn(at, call, field, next) ==
    /\ cpc = at
    /\ \E res \in Responses :
         /\ calls' = Append(calls, call)
         /\ reports' = Append(reports, Report(call, res))
         /\ IF ghGet(res) # NoFailure
            THEN /\ cpc' = next
                 /\ cfailure' = ghGet(res)
                 /\ UNCHANGED <<fetched, cexit>>
            ELSE /\ cpc' = next
                 /\ fetched' = IF field = "" THEN fetched
                               ELSE [fetched EXCEPT ![field] = "data"]
                 /\ UNCHANGED <<cexit, cfailure>>
    /\ UNCHANGED <<cfg, cacheFile>>
    /\ UNCHANGED <<dvars, pvars>>

\* one `await ghGet(...)` of main: the call named `call`, made at position `at`,
\* filling the field `field` of what is held in memory, and going on at `next`
RestCall(at, call, field, next) ==
    /\ cpc = at
    /\ \E res \in Responses :
         /\ calls' = Append(calls, call)
         /\ reports' = Append(reports, Report(call, res))
         /\ IF ghGet(res) # NoFailure
            THEN /\ CDie(ghGet(res))
                 /\ UNCHANGED fetched
            ELSE /\ cpc' = next
                 /\ fetched' = IF field = "" THEN fetched
                               ELSE [fetched EXCEPT ![field] = "data"]
                 /\ UNCHANGED <<cexit, cfailure>>
    /\ UNCHANGED <<cfg, cacheFile>>
    /\ UNCHANGED <<dvars, pvars>>

\* main, lines 242-244
FetchUser == RestCall("user", "user", "", "repos")
\* main, lines 247-251
FetchRepos == RestCall("repos", "repos", "repos", "events")
\* main, lines 254-257
FetchEvents == RestCall("events", "events", "events", "prs")
\* main, line 260
FetchPRs == RestCall("prs", "prs", "prs", "pinned")

\* main, line 263, with the secondary query disabled: no request
SkipPinned ==
    /\ cpc = "pinned"
    /\ ~cfg.useGraphQL
    /\ fetched' = [fetched EXCEPT !.pinned = "empty"]
    /\ cpc' = "out"
    /\ UNCHANGED <<cfg, calls, reports, cacheFile, cexit, cfailure>>
    /\ UNCHANGED <<dvars, pvars>>

\* main, line 263, with the secondary query enabled
FetchPinned ==
    /\ cpc = "pinned"
    /\ cfg.useGraphQL
    /\ \E res \in PinnedResponses :
         LET r == fetchPinnedGraphQL(res)
         IN  /\ calls' = Append(calls, "pinned")
             /\ reports' = Append(reports, Report("pinned", res))
             /\ IF r.thrown # NoFailure
                THEN /\ CDie(r.thrown)
                     /\ UNCHANGED fetched
                ELSE /\ cpc' = "out"
                     /\ fetched' = [fetched EXCEPT !.pinned = r.pinned]
                     /\ UNCHANGED <<cexit, cfailure>>
    /\ UNCHANGED <<cfg, cacheFile>>
    /\ UNCHANGED <<dvars, pvars>>

\* main, lines 282-291: --dry-run prints a sample and returns
CPreview ==
    /\ cpc = "out"
    /\ cfg.dryRun
    /\ cpc' = "exit"
    /\ cexit' = 0
    /\ UNCHANGED <<cfg, calls, reports, fetched, cacheFile, cfailure>>
    /\ UNCHANGED <<dvars, pvars>>

\* faulty variant of WriteCache: the write does not look at --dry-run
WriteCacheAlways ==
    /\ cpc = "out"
    /\ \E o \in WriteOutcomes :
         IF o = "ok"
         THEN /\ cacheFile' = [state |-> "written", content |-> fetched]
              /\ cpc' = "exit"
              /\ cexit' = 0
              /\ UNCHANGED cfailure
         ELSE /\ CDie(Thrown("io"))
              /\ UNCHANGED cacheFile
    /\ UNCHANGED <<cfg, calls, reports, fetched>>
    /\ UNCHANGED <<dvars, pvars>>

\* main, lines 293-297: mkdirSync and writeFileSync can both throw
WriteCache ==
    /\ cpc = "out"
    /\ ~cfg.dryRun
    /\ \E o \in WriteOutcomes :
         IF o = "ok"
         THEN /\ cacheFile' = [state |-> "written", content |-> fetched]
              /\ cpc' = "exit"
              /\ cexit' = 0
              /\ UNCHANGED cfailure
         ELSE /\ CDie(Thrown("io"))
              /\ UNCHANGED cacheFile
    /\ UNCHANGED <<cfg, calls, reports, fetched>>
    /\ UNCHANGED <<dvars, pvars>>

NextCollector ==
    \/ ReadConfig
    \/ FetchUser
    \/ FetchRepos
    \/ FetchEvents
    \/ FetchPRs
    \/ SkipPinned
    \/ FetchPinned
    \/ CPreview
    \/ WriteCache

SpecCollector == InitCollector /\ [][NextCollector]_vars

\* one run of either script
InitPipelines == InitCollector \/ InitDigest
NextPipelines == NextCollector \/ NextDigest
SpecPipelines == InitPipelines /\ [][NextPipelines]_vars

----------------------------------------------------------------------------
(* The projects module (unnamed/part_001, lines 17-31) *)

\* String.prototype.localeCompare on names of the letters a and b in either case:
\* the letters decide first, and between names of the same letters the first
\* difference of case does, lower case first
ToLower(ch) == IF ch = "A" THEN "a" ELSE IF ch = "B" THEN "b" ELSE ch
Lowered(s) == [i \in 1..Len(s) |-> ToLower(s[i])]
RECURSIVE CaseCompare(_, _)
CaseCompare(s, t) ==
    IF s = << >> THEN 0
    ELSE IF Head(s) = Head(t) THEN CaseCompare(Tail(s), Tail(t))
    ELSE IF Head(s) = ToLower(Head(s)) THEN -1 ELSE 1
localeCompare(s, t) ==
    IF StrLess(Lowered(s), Lowered(t)) THEN -1
    ELSE IF StrLess(Lowered(t), Lowered(s)) THEN 1
    ELSE CaseCompare(s, t)

\* a.updatedAt ? Date.parse(a.updatedAt) : 0
ProjectKey(p) == IF Falsy(p.updatedAt) THEN Num(0) ELSE GetTime(p.updatedAt)

\* the comparator of lines 23-31; a NaN result counts as +0
projectCompare(a, b) ==
    LET fa == IF a.featured THEN 1 ELSE 0
        fb == IF b.featured THEN 1 ELSE 0
        da == ProjectKey(a)
        db == ProjectKey(b)
    IN  IF fa # fb THEN fb - fa
        ELSE IF da.nan \/ db.nan THEN 0
        ELSE IF da.v # db.v THEN (IF db.v < da.v THEN -1 ELSE 1)
        ELSE localeCompare(a.name, b.name)

\* Array.prototype.sort(compare) for a consistent comparator: stable
SortWith(items0, Cmp(_, _)) ==
    LET n == Len(items0)
        items == SubSeq(items0, 1, n)
        Before(j, i) == \/ Cmp(items[j], items[i]) < 0
                        \/ (Cmp(items[j], items[i]) = 0 /\ j < i)
        rank == SubSeq([i \in 1..n |-> Cardinality({j \in 1..n : j # i /\ Before(j, i)}) + 1],
                       1, n)
    IN  [r \in 1..n |-> items[CHOOSE i \in 1..n : rank[i] = r]]

\* PROJECTS, for every order the sort can return: with an updatedAt that does not
\* parse the comparator is not consistent and the order is left to the implementation
ProjectsResults(raw) ==
    IF \E i \in 1..Len(raw) : ProjectKey(raw[i]).nan
    THEN Orders(raw)
    ELSE {SortWith(raw, projectCompare)}

ProjectNames == {<<"a">>, <<"B">>}
ProjectTemplates ==
    [name : ProjectNames, featured : BOOLEAN, updatedAt : {TsNull, T1, T2}]
    \cup {[name |-> <<"a">>, featured |-> FALSE, updatedAt |-> TsBad]}
ProjectLists == SeqsUpTo(ProjectTemplates, MaxProjects)

\* the module as its evaluation starts
InitProjects ==
    /\ ppc = "load"
    /\ projectsRaw \in ProjectLists
    /\ PROJECTS = << >>
    /\ DigestIdle
    /\ CollectorIdle

\* lines 18-31
LoadProjects ==
    /\ ppc = "load"
    /\ PROJECTS' \in ProjectsResults(projectsRaw)
    /\ ppc' = "done"
    /\ UNCHANGED projectsRaw
    /\ UNCHANGED <<dvars, cvars>>

\* caches whose timestamps differ, are equal, are missing or do not parse
SortRepoTemplates == {[name |-> NameAB, p |-> T1, u |-> TsNull],
                      [name |-> NameZA, p |-> T2, u |-> TsNull],
                      [name |-> NameE, p |-> TsBad, u |-> T1],
                      [name |-> NameAB, p |-> TOld, u |-> T1],
                      [name |-> NameZA, p |-> TsNull, u |-> T2]}
SortPRTemplates == {[url |-> UrlAB, m |-> T1], [url |-> UrlZA, m |-> T2],
                    [url |-> UrlAB, m |-> TEdge], [url |-> UrlAB, m |-> TsNull],
                    [url |-> UrlAB, m |-> TsBad]}
SortCaches ==
    {[repos |-> MkRepos(r), events |-> << >>, prs |-> MkPRs(p)] :
        r \in SeqsUpTo(SortRepoTemplates, MaxRepos),
        p \in SeqsUpTo(SortPRTemplates, MaxPRs)}

\* the three recency sorts: PROJECTS, recentRepos, mergedPRs
InitSort ==
    \/ InitProjects
    \/ \E c \in SortCaches : AfterRead(c, [k |-> "undefined", v |-> 0])
NextSort == LoadProjects \/ Prepare
SpecSort == InitSort /\ [][NextSort]_vars

----------------------------------------------------------------------------
(* The window filter on every kind of timestamp *)

TFuture == Ts(Now + DayMs)
WindowTimes == {TsNull, TsEmpty, TsBad, TOld, TEdge, T1, TFuture}

WindowPRTemplates == {[url |-> UrlAB, m |-> t] : t \in WindowTimes}
WindowRepoTemplates == {[name |-> NameAB, p |-> TsNull, u |-> TsNull],
                        [name |-> NameAB, p |-> TsEmpty, u |-> TsEmpty],
                        [name |-> NameAB, p |-> TsNull, u |-> TEdge],
                        [name |-> NameAB, p |-> TOld, u |-> TsNull],
                        [name |-> NameZA, p |-> TOld, u |-> T1],
                        [name |-> NameZA, p |-> TsBad, u |-> TsNull],
                        [name |-> NameZA, p |-> TFuture, u |-> TsBad]}
WindowEventTemplates == {[type |-> "PushEvent", c |-> t, repo |-> NameAB] : t \in WindowTimes}
                        \cup {[type |-> "WatchEvent", c |-> T1, repo |-> NameAB]}
WindowCaches ==
    {[repos |-> << >>, events |-> << >>, prs |-> MkPRs(p)] :
        p \in SeqsUpTo(WindowPRTemplates, MaxPRs)}
    \cup {[repos |-> MkRepos(r), events |-> << >>, prs |-> << >>] :
        r \in SeqsUpTo(WindowRepoTemplates, MaxRepos)}
    \cup {[repos |-> << >>, events |-> MkEvents(e), prs |-> << >>] :
        e \in SeqsUpTo(WindowEventTemplates, MaxEvents)}

InitWindow == \E c \in WindowCaches : AfterRead(c, [k |-> "undefined", v |-> 0])
NextWindow == Prepare
SpecWindow == InitWindow /\ [][NextWindow]_vars

----------------------------------------------------------------------------
(* Claims about the heuristic highlights *)

\* the records of the cache that fall in the 14-day window, before any cap
WindowedPRs == SelectSeq(cache.prs, PRInWindow)
WindowedRepos == SelectSeq(cache.repos, RepoInWindow)
WindowedEvents == SelectSeq(SelectSeq(cache.events, EventInWindow), EventInteresting)

Drafted == pc = "ai"

\* "available" as the claim counts it
Available ==
    Len(WindowedPRs) + Len(WindowedRepos)
    + (IF \E i \in 1..Len(WindowedEvents) : WindowedEvents[i].type = "ReleaseEvent"
       THEN 1 ELSE 0)

\* ... counting a release only when it is among the first EventCap windowed events
AvailableKept ==
    Len(WindowedPRs) + Len(WindowedRepos)
    + (IF \E i \in 1..Min(EventCap, Len(WindowedEvents)) :
             WindowedEvents[i].type = "ReleaseEvent"
       THEN 1 ELSE 0)

\* C1 as stated: for every cache and every maxHighlights, buildHeuristicHighlights
\* returns at least min(3, available) bullets.
C1_AsClaimed == Drafted => Len(baseHighlights) >= Min(MinCap, Available)

\* C1, amended: for every cache and every integer maxHighlights >= 3, the list has at
\* least min(3, available) bullets, where available counts the windowed merged PRs,
\* the windowed repositories and 1 for a ReleaseEvent among the first 80 windowed
\* events of the five listed types; so it is not empty when one of these qualifies.
C1_MinBullets ==
    (Drafted /\ ~maxHighlights.nan /\ maxHighlights.v >= MinCap)
        => Len(baseHighlights) >= Min(MinCap, AvailableKept)

\* a PR, a repository and a release shown together although maxHighlights is 3
C1_Witness ==
    /\ Drafted
    /\ maxHighlights = Num(MinCap)
    /\ Len(baseHighlights) = MinCap
    /\ {baseHighlights[i].kind : i \in 1..Len(baseHighlights)} = {"pr", "repo", "release"}

----------------------------------------------------------------------------
(* Claims about the heuristic changelog *)

CLBullets == {j \in 1..Len(baseChangelog) : baseChangelog[j].kind \in {"prline", "evline"}}
CLHeaders == {j \in 1..Len(baseChangelog) : baseChangelog[j].kind = "header"}
\* the repository name of the section line j stands in (<<"?">> before any header)
CLSection(j) ==
    LET H == {h \in CLHeaders : h < j}
    IN  IF H = {} THEN <<"?">> ELSE baseChangelog[CHOOSE h \in H : \A g \in H : g <= h].repo
\* where a line stands in the changelog (0 when it is not there)
CLPos(line) ==
    LET J == {j \in 1..Len(baseChangelog) : baseChangelog[j] = line}
    IN  IF J = {} THEN 0 ELSE CHOOSE j \in J : TRUE

\* all windowed merged PRs, most recently merged first
AllMergedPRs ==
    Items(SortDesc([i \in 1..Len(WindowedPRs) |->
              [key |-> GetTime(WindowedPRs[i].merged_at), item |-> WindowedPRs[i]]]))

\* the changelog is the partition of prs and evs by owning repository
PartitionOf(prs, evs) ==
    LET L == baseChangelog
        np == Len(prs)
        ne == Len(evs)
        \* owner and position of the bullet of each PR and of each event
        ownP == SubSeq([i \in 1..np |-> repoOfPR(prs[i])], 1, np)
        ownE == SubSeq([i \in 1..ne |-> repoOfEvent(evs[i])], 1, ne)
        posP == SubSeq([i \in 1..np |-> CLPos(PRLine(prs[i]))], 1, np)
        posE == SubSeq([i \in 1..ne |-> CLPos(EventLine(evs[i]))], 1, ne)
    IN  \* one bullet each, in the section of the owning repository
        /\ \A i \in 1..np :
              /\ Cardinality({j \in CLBullets : L[j] = PRLine(prs[i])}) = 1
              /\ CLSection(posP[i]) = ownP[i]
        /\ \A i \in 1..ne :
              /\ Cardinality({j \in CLBullets : L[j] = EventLine(evs[i])}) = 1
              /\ CLSection(posE[i]) = ownE[i]
        /\ Cardinality(CLBullets) = np + ne
        \* the headers are the owners, in lexicographic order
        /\ {L[h].repo : h \in CLHeaders} = Range(ownP) \cup Range(ownE)
        /\ \A g, h \in CLHeaders : g < h => StrLess(L[g].repo, L[h].repo)
        \* inside a section: PRs first, each kind in encounter order
        /\ \A i \in 1..np, k \in 1..ne : ownP[i] = ownE[k] => posP[i] < posE[k]
        /\ \A i, k \in 1..np : (i < k /\ ownP[i] = ownP[k]) => posP[i] < posP[k]
        /\ \A i, k \in 1..ne : (i < k /\ ownE[i] = ownE[k]) => posE[i] < posE[k]
        \* the placeholder stands for "no bullet"
        /\ (CLPos(Placeholder) # 0) <=> (CLBullets = {})

\* C2 as stated: every windowed merged PR and every windowed event of the five types
\* has exactly one bullet, in the section of its repository; headers are the owning
\* repositories in lexicographic order; PR bullets precede event bullets; the
\* placeholder is there iff there is no bullet.
C2_AsClaimed == Drafted => PartitionOf(AllMergedPRs, WindowedEvents)

\* C2, amended: the same, of the 50 most recently merged windowed PRs and the first
\* 80 windowed events of the five types (the others get no bullet).
C2_Partition ==
    Drafted => PartitionOf(SubSeq(AllMergedPRs, 1, Min(PRCap, Len(AllMergedPRs))),
                           SubSeq(WindowedEvents, 1, Min(EventCap, Len(WindowedEvents))))

\* sections '' (a PR without repository_url), 'desconhecido' (an event without
\* repository name) and a third one
C2_Witness ==
    /\ Drafted
    /\ {<< >>, Desconhecido} \subseteq {baseChangelog[h].repo : h \in CLHeaders}
    /\ Cardinality(CLHeaders) >= 3

----------------------------------------------------------------------------
(* Claims about the generative rewrite *)

\* aiSummarize has returned in this run
Summarized == result.source # ""

ReplyText == aiReply.text
GotText == aiReply.provider # "none" /\ aiReply.outcome = "ok" /\ ReplyText # << >>

\* the reply lines before the first ===CHANGELOG===, after the last ===HIGHLIGHTS===
\* among them: the highlights section
FirstC ==
    LET I == {i \in 1..Len(ReplyText) : ReplyText[i].kind = "C"}
    IN  IF I = {} THEN Len(ReplyText) + 1 ELSE CHOOSE i \in I : \A j \in I : i <= j
LastH ==
    LET I == {i \in 1..(FirstC - 1) : ReplyText[i].kind = "H"}
    IN  IF I = {} THEN 0 ELSE CHOOSE i \in I : \A j \in I : j <= i
SectionBullets ==
    LET IsB(l) == l.kind \in {"bullet", "ibullet"}
        ls == SelectSeq(SubSeq(ReplyText, LastH + 1, FirstC - 1), IsB)
    IN  [i \in 1..Len(ls) |-> [kind |-> "ai", id |-> ls[i].id, repo |-> << >>]]

\* the reply lines after the first ===CHANGELOG===, up to the next one, without the
\* whitespace around them: the changelog portion
NextC ==
    LET I == {i \in (FirstC + 1)..Len(ReplyText) : ReplyText[i].kind = "C"}
    IN  IF I = {} THEN Len(ReplyText) + 1 ELSE CHOOSE i \in I : \A j \in I : i <= j
ChangelogPortion ==
    LET inner == {i \in (FirstC + 1)..(NextC - 1) : ReplyText[i].kind # "blank"}
        lo == CHOOSE i \in inner : \A j \in inner : i <= j
        hi == CHOOSE i \in inner : \A j \in inner : j <= i
    IN  IF inner = {} THEN << >>
        ELSE [i \in 1..(hi - lo + 1) |->
                 [kind |-> "ai", id |-> ReplyText[lo + i - 1].id, repo |-> << >>,
                  etype |-> IF i = 1 /\ ReplyText[lo].kind = "ibullet" THEN "bullet"
                            ELSE ReplyText[lo + i - 1].kind]]

\* the cases of C5: no credential, a network failure, a non-success status, an empty text
FellBack ==
    \/ aiReply.provider = "none"
    \/ aiReply.outcome \in {"network", "http"}
    \/ (aiReply.outcome = "ok" /\ ReplyText = << >>)

Assembled == pc \in {"preview", "write_hi", "write_ch"} \/ (pc = "exit" /\ docs.hi # NoDoc)

\* C5: without a credential, or when the generative call fails on the network, answers
\* a non-success status or an empty text, the run goes on (it fails only if a write
\* fails), what it produces is the heuristic draft tagged "heuristic", and the
\* endpoint was contacted at most once, and not at all without a credential.
C5_Fallback ==
    /\ aiCalls <= 1
    /\ (Summarized /\ aiReply.provider = "none") => aiCalls = 0
    /\ (Summarized /\ FellBack) =>
          /\ result = [source |-> "heuristic", highlights |-> baseHighlights,
                       changelog |-> baseChangelog]
          /\ failure \in {"none", "io"}
          /\ Assembled =>
                /\ docs.hi.source = "heuristic" /\ docs.hi.body = baseHighlights
                /\ docs.ch.source = "heuristic" /\ docs.ch.body = baseChangelog
          /\ (pc = "exit" /\ failure = "none") =>
                /\ exitCode = 0
                /\ ~dryRun => /\ hiFile[weekStr] = Written(docs.hi)
                              /\ chFile[weekStr] = Written(docs.ch)

\* a run that got a non-success status and wrote the heuristic pair
C5_Witness ==
    /\ pc = "exit" /\ exitCode = 0 /\ ~dryRun
    /\ aiReply.outcome = "http" /\ aiCalls = 1
    /\ baseHighlights # << >>
    /\ hiFile[weekStr].doc.body = baseHighlights
    /\ hiFile[weekStr].doc.source = "heuristic"

NoDelimiters == \A i \in 1..Len(ReplyText) : ReplyText[i].kind \notin {"H", "C"}

\* C6 as stated: a non-empty reply without either delimiter leaves the heuristic
\* highlights in place, and the source tag is "ai-generated" only if the changelog
\* portion of the reply was non-empty, else "heuristic".
C6_AsClaimed ==
    (Summarized /\ GotText /\ NoDelimiters) =>
        /\ result.highlights = baseHighlights
        /\ result.source = IF ChangelogPortion # << >> THEN "ai-generated" ELSE "heuristic"

\* C7 as stated: with no bullet line in the highlights section the final highlights are
\* the heuristic ones and the changelog is the reply's changelog text if there is any,
\* else the heuristic one; with a bullet line, the final highlights are the reply's
\* bullet lines.
C7_AsClaimed ==
    (Summarized /\ GotText) =>
        /\ result.changelog = IF ChangelogPortion # << >> THEN ChangelogPortion
                              ELSE baseChangelog
        /\ result.highlights = IF SectionBullets = << >> THEN baseHighlights
                               ELSE SectionBullets

\* C7, amended: with no bullet line in the highlights section the final highlights are
\* the heuristic ones and the changelog is the reply's changelog text if there is any,
\* else the heuristic one; with a bullet line, the final highlights are the first
\* max(3, maxHighlights) bullet lines of the reply, and none of them when
\* maxHighlights is not a number.
C7_Rewrite ==
    (Summarized /\ GotText) =>
        /\ result.changelog = IF ChangelogPortion # << >> THEN ChangelogPortion
                              ELSE baseChangelog
        /\ result.highlights =
              IF SectionBullets = << >> THEN baseHighlights
              ELSE IF maxHighlights.nan THEN << >>
              ELSE SubSeq(SectionBullets, 1,
                          Min(Len(SectionBullets), Max(MinCap, maxHighlights.v)))

\* a reply with more bullet lines than are kept
C7_Witness ==
    /\ Summarized /\ GotText
    /\ ~maxHighlights.nan
    /\ Len(SectionBullets) > Max(MinCap, maxHighlights.v)
    /\ Len(result.highlights) = Max(MinCap, maxHighlights.v)
    /\ result.highlights # baseHighlights

----------------------------------------------------------------------------
(* Claims about a whole run of the Digest Builder *)

\* the files this run wrote
HiWritten == {w \in Weeks : hiFile[w].state = "written"}
ChWritten == {w \in Weeks : chFile[w].state = "written"}

\* a Collector run that exits non-zero did not write the cache file
CollectorNoPartial == (cpc = "exit" /\ cexit # 0) => cacheFile = PrevCacheFile

\* C4 as stated: no fatal path leaves partial output: a Collector run that exits
\* non-zero did not write the cache file, and a Digest Builder run that exits non-zero
\* wrote neither the highlights nor the changelog file.
C4_AsClaimed ==
    /\ CollectorNoPartial
    /\ (pc = "exit" /\ exitCode # 0) => (HiWritten = {} /\ ChWritten = {})

\* the documents of a run carry one of the tags in `tags`, the same tag and week
TaggedWith(tags) ==
    /\ Assembled =>
          /\ docs.hi.source \in tags
          /\ docs.hi.source = docs.ch.source
          /\ docs.hi.week = weekStr /\ docs.ch.week = weekStr
    /\ \A w \in HiWritten : hiFile[w].doc.source \in tags /\ hiFile[w].doc.week = w
    /\ \A w \in ChWritten : chFile[w].doc.source \in tags /\ chFile[w].doc.week = w
    /\ \A w \in HiWritten \cap ChWritten : hiFile[w].doc.source = chFile[w].doc.source
    /\ (pc = "exit" /\ exitCode = 0 /\ ~dryRun) =>
          (HiWritten = {weekStr} /\ ChWritten = {weekStr})

\* C9 as stated: the source tag of both documents is "heuristic" or "ai-generated",
\* and both carry the same tag and the same week tag.
C9_AsClaimed == TaggedWith({"heuristic", "ai-generated"})

\* C9, amended: the source tag of both documents is "heuristic" or "ai", and both
\* carry the same tag and the same week tag.
C9_Tags == TaggedWith({"heuristic", "ai"})

\* a run that wrote both documents with the tag "ai"
C9_Witness ==
    /\ pc = "exit" /\ exitCode = 0
    /\ hiFile[weekStr].state = "written" /\ chFile[weekStr].state = "written"
    /\ hiFile[weekStr].doc.source = "ai"

\* four digits, a hyphen, two digits
IsWeekTag(s) ==
    /\ Len(s) = 7
    /\ \A i \in {1, 2, 3, 4, 6, 7} : s[i] \in Digits
    /\ s[5] = "-"

\* C10: a --week value is taken verbatim iff it is four digits, a hyphen and two
\* digits; any other supplied value ends the run with a format error and a non-zero
\* status before any cache read, network call or file write.
C10_Week ==
    (pc # "args" /\ argvWeek.flag) =>
        IF argvWeek.nx # Undefined /\ IsWeekTag(argvWeek.nx)
        THEN weekStr = argvWeek.nx /\ failure # "format"
        ELSE /\ pc = "exit" /\ exitCode = 1 /\ failure = "format"
             /\ ~cacheRead /\ aiCalls = 0
             /\ HiWritten = {} /\ ChWritten = {}

\* "2025-34" taken verbatim up to the written files
C10_Witness ==
    /\ argvWeek = [flag |-> TRUE, nx |-> Week2025_34]
    /\ pc = "exit" /\ exitCode = 0
    /\ weekStr = Week2025_34
    /\ HiWritten = {Week2025_34}

\* "2025-5" rejected
C10_Rejected ==
    /\ argvWeek = [flag |-> TRUE, nx |-> <<"2", "0", "2", "5", "-", "5">>]
    /\ pc = "exit" /\ exitCode = 1 /\ failure = "format"

----------------------------------------------------------------------------
(* Claims about the Collector *)

RestCalls == {"user", "repos", "events", "prs"}

\* the remote answered call i with a remaining-calls counter of zero or less
\* (a response without the header counts as zero)
Exhausted(i) == reports[i].answered /\ JsLE(reports[i].rem, Num(0))

\* the run was aborted at its last call for rate-limit exhaustion, nothing written
AbortedForRate ==
    /\ cpc = "exit" /\ cexit = 1
    /\ cfailure.kind \in {"ratelimit", "range"}
    /\ cfailure.kind = "ratelimit" => cfailure.reset = reports[Len(reports)].reset
    /\ cacheFile = PrevCacheFile

\* C3 as stated: every outbound call, the pinned-items query included, enforces the
\* guard: a reported remaining-calls counter of zero or less aborts the run with a
\* rate-limit failure that carries the reset time, and no cache file is written.
C3_AsClaimed ==
    \A i \in 1..Len(reports) : Exhausted(i) => (i = Len(reports) /\ AbortedForRate)

\* C3, amended: each of the four REST calls (user profile, repositories, events,
\* pull-request search) enforces the guard: a reported remaining-calls counter of
\* zero or less aborts the run non-zero at that call, with a rate-limit failure
\* that carries the reset time (or, when the reset header is not a number, with the
\* range error of formatting it), and no cache file is written. The pinned-items
\* query is not guarded: no counter it reports ends the run.
C3_RestGuard ==
    /\ \A i \in 1..Len(reports) :
          (reports[i].call \in RestCalls /\ Exhausted(i)) =>
              (i = Len(reports) /\ AbortedForRate)
    /\ cfailure.kind \in {"ratelimit", "range"} =>
          /\ reports[Len(reports)].call \in RestCalls
          /\ Exhausted(Len(reports))

\* the events call reports zero remaining calls and the run stops there
C3_Witness ==
    /\ calls = <<"user", "repos", "events">>
    /\ reports[3].rem = Num(0)
    /\ reports[3].outcome = "ok"
    /\ cpc = "exit" /\ cexit = 1
    /\ cfailure = [kind |-> "ratelimit", reset |-> Num(1)]
    /\ cacheFile = PrevCacheFile

\* the pinned-items query was sent and failed
PinnedFailed ==
    /\ reports # << >>
    /\ reports[Len(reports)].call = "pinned"
    /\ reports[Len(reports)].outcome \in {"network", "http", "badjson"}

\* C8 as stated: a failure of the pinned-items query (network error, non-success
\* status, unparseable body) is not fatal: the run goes on with an empty pinned list
\* and the cache is written with the repositories, events and pull requests fetched.
C8_AsClaimed ==
    PinnedFailed =>
        /\ cfailure.kind \in {"none", "io"}
        /\ fetched = [repos |-> "data", events |-> "data", prs |-> "data",
                      pinned |-> "empty"]
        /\ (cpc = "exit" /\ cfailure.kind = "none" /\ ~cfg.dryRun) =>
              (cexit = 0 /\ cacheFile = [state |-> "written", content |-> fetched])

----------------------------------------------------------------------------
(* Claims about both scripts *)

\* C11: in dry-run mode neither script writes: a Collector dry run leaves the cache
\* file as it was, and a Digest Builder dry run leaves the highlights and changelog
\* files of every week as they were, whatever the fetches or the generative call did.
C11_DryRunFrame ==
    /\ cfg.dryRun => cacheFile = PrevCacheFile
    /\ dryRun => \A w \in Weeks : hiFile[w] = PrevFile /\ chFile[w] = PrevFile

\* a Digest Builder dry run that got a generative rewrite and ended with status 0
C11_Witness ==
    /\ dryRun /\ pc = "exit" /\ exitCode = 0
    /\ result.source = "ai"
    /\ docs.hi.body = result.highlights /\ docs.hi # NoDoc
    /\ \A w \in Weeks : hiFile[w] = PrevFile /\ chFile[w] = PrevFile

\* a Collector dry run that fetched everything and ended with status 0
C11_CollectorDryRun ==
    /\ cfg.dryRun /\ cpc = "exit" /\ cexit = 0
    /\ fetched.prs = "data"
    /\ cacheFile = PrevCacheFile

----------------------------------------------------------------------------
(* Claims about the recency sorts *)

Prepared == pc = "main"
Loaded == ppc = "done"

AllProjectsDated == \A i \in 1..Len(projectsRaw) : ~ProjectKey(projectsRaw[i]).nan
AllReposDated == \A i \in 1..Len(WindowedRepos) : ~RepoKey(WindowedRepos[i]).nan

\* recentRepos and mergedPRs are newest first
ViewsNewestFirst ==
    /\ (Prepared /\ AllReposDated) =>
          \A i, j \in 1..Len(recentRepos) :
              RepoKey(recentRepos[i]).v > RepoKey(recentRepos[j]).v => i < j
    /\ Prepared =>
          \A i, j \in 1..Len(mergedPRs) :
              mergedPRs[i].merged_at.t > mergedPRs[j].merged_at.t => i < j

\* projects of equal timestamp are by name ascending
EqualDatesByName ==
    \A i, j \in 1..Len(PROJECTS) :
        (/\ i < j
         /\ PROJECTS[i].featured = PROJECTS[j].featured
         /\ ProjectKey(PROJECTS[i]) = ProjectKey(PROJECTS[j]))
            => localeCompare(PROJECTS[i].name, PROJECTS[j].name) <= 0

\* C12 as stated: of two records with different recency timestamps the later one comes
\* first, in PROJECTS (updatedAt), in the windowed repositories (pushed-or-updated) and
\* in the merged pull requests (merged timestamp); projects of equal timestamp are by
\* name ascending.
C12_AsClaimed ==
    /\ (Loaded /\ AllProjectsDated) =>
          /\ \A i, j \in 1..Len(PROJECTS) :
                (/\ ~Falsy(PROJECTS[i].updatedAt) /\ ~Falsy(PROJECTS[j].updatedAt)
                 /\ ProjectKey(PROJECTS[i]).v > ProjectKey(PROJECTS[j]).v) => i < j
          /\ EqualDatesByName
    /\ ViewsNewestFirst

\* C12, amended: provided every recency timestamp of the list parses (an absent one
\* counts as time 0): PROJECTS holds the featured projects first, and of two projects
\* that are both featured or both not, the one with the later updatedAt comes first,
\* projects of equal timestamp being by name ascending (localeCompare); of two windowed
\* repositories with different pushed-or-updated timestamps and of two merged pull
\* requests with different merged timestamps the later one comes first.
C12_RecencySort ==
    /\ (Loaded /\ AllProjectsDated) =>
          /\ PROJECTS \in Orders(projectsRaw)
          /\ \A i, j \in 1..Len(PROJECTS) :
                /\ (PROJECTS[i].featured /\ ~PROJECTS[j].featured) => i < j
                /\ (/\ PROJECTS[i].featured = PROJECTS[j].featured
                    /\ ProjectKey(PROJECTS[i]).v > ProjectKey(PROJECTS[j]).v) => i < j
          /\ EqualDatesByName
    /\ ViewsNewestFirst

\* a featured project put before two more recent ones, which were swapped into
\* name order
C12_Witness ==
    /\ Loaded
    /\ projectsRaw = <<[name |-> <<"B">>, featured |-> FALSE, updatedAt |-> T1],
                       [name |-> <<"a">>, featured |-> FALSE, updatedAt |-> T1],
                       [name |-> <<"a">>, featured |-> TRUE, updatedAt |-> T2]>>
    /\ PROJECTS = <<projectsRaw[3], projectsRaw[2], projectsRaw[1]>>

\* two repositories listed oldest first come out newest first
C12_ReposSwapped ==
    /\ Prepared
    /\ Len(cache.repos) = 2 /\ Len(recentRepos) = 2
    /\ RepoKey(cache.repos[1]).v < RepoKey(cache.repos[2]).v
    /\ ~RepoKey(cache.repos[1]).nan /\ ~RepoKey(cache.repos[2]).nan
    /\ recentRepos = <<cache.repos[2], cache.repos[1]>>

----------------------------------------------------------------------------
(* Claims about the window filter *)

\* the verdict the claim gives for a timestamp: false for a null, absent or empty one
\* and for one strictly older than 14 * 86400000 ms, true for every other
ClaimedWithin(ts) ==
    /\ ts.k \notin {"null", "empty"}
    /\ ~(ts.k = "ts" /\ Now - ts.t > 14 * 86400000)

\* the same, with a timestamp that does not parse as a date also rejected
ParsedWithin(ts) ==
    /\ ts.k = "ts"
    /\ Now - ts.t <= 14 * 86400000

\* the windowed views hold exactly the records whose timestamp Within accepts
ViewsFilterBy(Within(_)) ==
    Prepared =>
        /\ \A i \in 1..Len(cache.prs) :
              cache.prs[i] \in Range(mergedPRs) <=> Within(cache.prs[i].merged_at)
        /\ \A i \in 1..Len(cache.repos) :
              cache.repos[i] \in Range(recentRepos)
                  <=> (Within(cache.repos[i].pushed_at) \/ Within(cache.repos[i].updated_at))
        /\ \A i \in 1..Len(cache.events) :
              cache.events[i] \in Range(interestingEvents)
                  <=> (/\ Within(cache.events[i].created_at)
                       /\ cache.events[i].type \in InterestingTypes)

\* C13 as stated: withinLastDays(ts, 14) is false for a null, absent or empty ts and
\* for a ts strictly older than 14 days, and true for every other ts, exactly 14 days
\* old included; records without the timestamp never appear in the windowed views.
C13_AsClaimed == ViewsFilterBy(ClaimedWithin)

\* C13, amended: withinLastDays(ts, 14) is false for a null, absent or empty ts, for a
\* ts that does not parse as a date and for a ts strictly older than 14 days, and true
\* for every other ts, exactly 14 days old and later than now included; records
\* without the timestamp never appear in the windowed views.
C13_Window ==
    /\ ViewsFilterBy(ParsedWithin)
    /\ \A ts \in WindowTimes : withinLastDays(ts, 14) <=> ParsedWithin(ts)

\* a pull request merged exactly 14 days ago is kept, one merged a millisecond
\* earlier is not
C13_Witness ==
    /\ Prepared
    /\ Len(cache.prs) = 2
    /\ cache.prs[1].merged_at = TOld
    /\ cache.prs[2].merged_at = TEdge
    /\ mergedPRs = <<cache.prs[2]>>

----------------------------------------------------------------------------
(* Claims about the length and the make-up of the highlights *)

\* the positions of the bullets of one kind in a list of bullets
Positions(list, kind) == {i \in 1..Len(list) : list[i].kind = kind}

\* a list of bullets is no longer than max(3, maxHighlights); when maxHighlights is
\* not a number the maximum is not one either and the list is empty
Capped(list) ==
    IF maxHighlights.nan THEN list = << >>
    ELSE Len(list) <= Max(3, maxHighlights.v)

\* the heuristic list is merged-PR bullets, then repository bullets, then release
\* bullets, the merged-PR bullets standing for the most recently merged PRs, the
\* latest first
HeuristicOrder ==
    LET prs == Positions(baseHighlights, "pr")
        repos == Positions(baseHighlights, "repo")
        rels == Positions(baseHighlights, "release")
    IN  /\ prs \cup repos \cup rels = 1..Len(baseHighlights)
        /\ \A i \in prs, j \in repos \cup rels : i < j
        /\ \A i \in repos, j \in rels : i < j
        /\ \A i \in prs : i <= Len(mergedPRs) /\ baseHighlights[i] = PRBullet(mergedPRs[i])
        /\ \A i, j \in 1..Len(mergedPRs) :
              i < j => mergedPRs[i].merged_at.t >= mergedPRs[j].merged_at.t

\* each bullet of the heuristic list was added within the limit the claim gives for
\* its kind
HeuristicLimits ==
    ~maxHighlights.nan =>
        /\ Cardinality(Positions(baseHighlights, "pr")) <= Max(0, maxHighlights.v)
        /\ \A i \in Positions(baseHighlights, "repo") : i - 1 < maxHighlights.v
        /\ Cardinality(Positions(baseHighlights, "release")) <= 1
        /\ \A i \in Positions(baseHighlights, "release") : i - 1 < Max(3, maxHighlights.v)

\* C14 as stated: the highlights list that is output never has more than
\* max(3, maxHighlights) bullets, on the heuristic and on the generative path; the
\* heuristic list is at most maxHighlights merged-PR bullets (most recently merged
\* first), then repository bullets added only while the list has fewer than
\* maxHighlights bullets, then at most one release bullet added only if the list has
\* fewer than max(3, maxHighlights) bullets.
C14_AsClaimed ==
    /\ Drafted => (Capped(baseHighlights) /\ HeuristicOrder /\ HeuristicLimits)
    /\ Summarized => Capped(result.highlights)

\* what remains of C14 when maxHighlights is not negative
C14_NonNegative ==
    /\ (Drafted /\ (maxHighlights.nan \/ maxHighlights.v >= 0)) =>
          (Capped(baseHighlights) /\ HeuristicOrder /\ HeuristicLimits)
    /\ Drafted => (Capped(baseHighlights) /\ HeuristicOrder)
    /\ Summarized => Capped(result.highlights)

\* a merged-PR bullet in the list of a run with a negative maxHighlights
C14_NegativeKeepsPR ==
    /\ Drafted
    /\ ~maxHighlights.nan /\ maxHighlights.v < 0
    /\ Positions(baseHighlights, "pr") # {}

----------------------------------------------------------------------------
(* Claims about the order of the remote calls *)

CallOrder == <<"user", "repos", "events", "prs", "pinned">>

\* call i came back with a response that ghGet returns: a success status, a body
\* that parses, and a remaining-calls counter that is not zero or less
Succeeded(i) == reports[i].outcome = "ok" /\ ~Exhausted(i)

\* the calls made so far, in every state of a run
CallsInOrder ==
    /\ Len(calls) <= Len(CallOrder)
    /\ calls = SubSeq(CallOrder, 1, Len(calls))
    /\ Len(reports) = Len(calls)
    /\ \A i \in 1..Len(calls) :
          /\ reports[i].call = calls[i]
          /\ i < Len(calls) => Succeeded(i)
          /\ (calls[i] \in RestCalls /\ ~Succeeded(i)) =>
                (i = Len(calls) /\ cpc = "exit" /\ cexit # 0)
    /\ cacheFile # PrevCacheFile =>
          /\ \A c \in RestCalls : \E i \in 1..Len(calls) : calls[i] = c /\ Succeeded(i)
          /\ cfg.useGraphQL => calls = CallOrder

\* one step of a run: at most one call is added, the next of the order, none once
\* the run has ended, and the step that writes the cache adds none
CallStep ==
    /\ \/ calls' = calls
       \/ /\ Len(calls) < Len(CallOrder)
          /\ calls' = Append(calls, CallOrder[Len(calls) + 1])
          /\ cpc # "exit"
          /\ Len(calls) > 0 => Succeeded(Len(calls))
    /\ cacheFile' # cacheFile => (calls' = calls /\ cpc = "out" /\ cpc' = "exit")

\* C15: in every Collector run the remote calls are issued one at a time in the order
\* profile, repositories, events, pull-request search, pinned items; a call is issued
\* only after the previous one has completed successfully and at most once; a failure
\* of any of the first four ends the run with a non-zero status before any later call;
\* the cache is written only after all of them.
C15_CallOrder == []CallsInOrder /\ [][CallStep]_vars

\* all five calls were made, each once, and the cache was written after them
C15_Witness ==
    /\ calls = CallOrder
    /\ \A i \in 1..4 : Succeeded(i)
    /\ cpc = "exit" /\ cexit = 0
    /\ cacheFile = [state |-> "written", content |-> fetched]

\* the repositories call failed and the run ended there with status 1
C15_StoppedAtFailure ==
    /\ calls = <<"user", "repos">>
    /\ reports[2].outcome = "http"
    /\ cpc = "exit" /\ cexit = 1
    /\ cacheFile = PrevCacheFile

====
